---- MODULE Spec2Model ----
(***************************************************************************)
(* Model of the notification engine of the stock news bot                  *)
(* (src/stock_bot.py): the subscriber store (DatabaseManager), the         *)
(* per-recipient digest delivery (send_ai_digest_parts,                    *)
(* generate_ai_digest) and the broadcast loops (send_daily_notifications,  *)
(* notify_command, test_notifications_command).                            *)
(***************************************************************************)
EXTENDS Integers, Sequences, FiniteSets, TLC

\* ---------------------------------------------------------------- bounds
NumUsers == 2
MaxTime == 1
MaxItems == 1
\* days the wall clock runs for
MaxDays == 9

Users == 1..NumUsers

\* ------------------------------------------------------- program constants
Languages == {"en", "ru"}
TopicKeys == {"all", "oil_gas", "metals_mining", "technology", "finance"}
\* the topics the modelled callers pass to set_user_topics
TopicChoices == {"all", "technology", "finance"}
\* display fields Telegram supplies with an update
Profiles ==
    { [username |-> "alice", first_name |-> "Alice", last_name |-> "A"],
      [username |-> "None",  first_name |-> "Al",    last_name |-> "None"] }

NoRow == [absent |-> TRUE]

\* outcomes of one bot.send_message call: delivered, or an exception whose
\* text does / does not contain "bot was blocked"
SendOutcomes == {"ok", "transient", "blocked"}
\* outcomes of one call of the text-generation service
SvcOutcomes == {"ok", "fail"}
Unbound == "unbound"

VARIABLES
    users,            \* table users: user_id -> row or NoRow
    admin_users,      \* table admin_users: set of user_id
    now,              \* CURRENT_TIMESTAMP
    last_op,          \* history: the statement a direct caller of the Store ran last
    trigger,          \* the command running a broadcast: none / notify / test
    admin,            \* the user who issued that command
    pc,               \* position of the broadcast in its code
    subscribers,      \* the list enumerated at the start of the broadcast
    idx,              \* position of the loop in subscribers
    successful_sends,
    failed_sends,
    user_topics,      \* locals of the per-recipient routine
    user_language,
    news_items,
    asset_items,
    digest,           \* generate_ai_digest's return value (notify loop)
    caught,           \* exception caught by the routine's own except clause
    exc,              \* exception propagating to the broadcast loop
    msgs,             \* what the current recipient was sent, in order
    genlog,           \* generation calls that failed for the current recipient
    replies,          \* replies sent to the admin by the running command
    hist,             \* per-broadcast history of the recipients
    adminlog,         \* history of the registrations and admin grants
    entry,            \* the function the process was started through
    env,              \* which mandatory credentials the environment holds
    proc,             \* position of the process in main
    exit_status,      \* exit status of the process once it has ended
    driver,           \* state of the loop that calls schedule.run_pending
    clock,            \* wall clock: instants since a Monday 00:00:00
    next_run,         \* schedule's jobs: job -> its next run (or unregistered)
    fired,            \* history: the calls of job functions, job and instant
    tasks,            \* tasks created by job functions and not yet started
    runs,             \* history: the executions of send_daily_notifications
    gen_in,           \* the arguments of a call of fetch_ai_news / fetch_ai_assets
    gen_out,          \* what that call requested and returned
    wh,               \* clear_telegram_webhook: its loop variable and what it did
    cb,               \* the callback query handled last, and how it was answered
    parse_in,         \* the arguments of a call of _parse_ai_news / _parse_ai_assets
    parse_out         \* what that call returned

storeVars == <<users, admin_users, now>>
loopVars == <<trigger, admin, pc, subscribers, idx, successful_sends, failed_sends>>
delivVars == <<user_topics, user_language, news_items, asset_items, digest,
               caught, exc, msgs, genlog>>
bcastVars == <<loopVars, delivVars, replies, hist>>
\* what the Store's callers and the broadcasts leave alone
procVars == <<entry, env, proc, exit_status, wh>>
schedVars == <<driver, clock, next_run, fired, tasks, runs>>
genVars == <<gen_in, gen_out>>
parseVars == <<parse_in, parse_out>>
restVars == <<cb, parseVars>>
extVars == <<adminlog, procVars, schedVars, genVars, restVars>>
vars == <<storeVars, last_op, bcastVars, extVars>>
\* ------------------------------------------------------- DatabaseManager
\* CREATE TABLE users: the column defaults of a freshly inserted row
NewRow(p, t) ==
    [username |-> p.username, first_name |-> p.first_name,
     last_name |-> p.last_name,
     subscribed |-> TRUE, language |-> "ru", topic_preferences |-> "all",
     last_active |-> t]

AddUserRowReplace(row, p, t) == NewRow(p, t)

\* INSERT ... ON CONFLICT(user_id) DO UPDATE SET username, first_name,
\* last_name, last_active
AddUserRow(row, p, t) ==
    IF row = NoRow
    THEN NewRow(p, t)
    ELSE [row EXCEPT !.username = p.username, !.first_name = p.first_name,
                     !.last_name = p.last_name, !.last_active = t]

add_user(tbl, u, p, t) == [tbl EXCEPT ![u] = AddUserRow(tbl[u], p, t)]

\* an upsert: the row is created when it is missing
subscribe_user_upsert(tbl, u) ==
    IF tbl[u] = NoRow
    THEN [tbl EXCEPT ![u] = NewRow([username |-> "", first_name |-> "",
                                    last_name |-> ""], 0)]
    ELSE [tbl EXCEPT ![u].subscribed = TRUE]

\* UPDATE users SET subscribed = TRUE WHERE user_id = ?
subscribe_user(tbl, u) ==
    IF tbl[u] = NoRow THEN tbl ELSE [tbl EXCEPT ![u].subscribed = TRUE]

unsubscribe_user_everyone(tbl, u) ==
    [v \in Users |-> IF tbl[v] = NoRow THEN NoRow
                     ELSE [tbl[v] EXCEPT !.subscribed = FALSE]]

\* UPDATE users SET subscribed = FALSE WHERE user_id = ?
unsubscribe_user(tbl, u) ==
    IF tbl[u] = NoRow THEN tbl ELSE [tbl EXCEPT ![u].subscribed = FALSE]

\* UPDATE users SET language = ? WHERE user_id = ?
set_user_language(tbl, u, l) ==
    IF tbl[u] = NoRow THEN tbl ELSE [tbl EXCEPT ![u].language = l]

\* UPDATE users SET topic_preferences = ? WHERE user_id = ?
set_user_topics(tbl, u, t) ==
    IF tbl[u] = NoRow THEN tbl ELSE [tbl EXCEPT ![u].topic_preferences = t]

\* SELECT language FROM users WHERE user_id = ?  (no row: 'ru')
get_user_language(tbl, u) == IF tbl[u] = NoRow THEN "ru" ELSE tbl[u].language

\* SELECT topic_preferences FROM users WHERE user_id = ?  (no row: 'all')
get_user_topics(tbl, u) ==
    IF tbl[u] = NoRow THEN "all" ELSE tbl[u].topic_preferences

\* SELECT subscribed FROM users WHERE user_id = ?  (no row: False)
is_subscribed(tbl, u) == IF tbl[u] = NoRow THEN FALSE ELSE tbl[u].subscribed

get_user_count_one(tbl) == 1

\* SELECT COUNT(*) FROM users
get_user_count(tbl) == Cardinality({u \in Users : tbl[u] # NoRow})

\* INSERT OR IGNORE INTO admin_users
add_admin(adm, u) == adm \cup {u}

db_is_admin_any(adm, u) == TRUE

\* SELECT user_id FROM admin_users WHERE user_id = ?
db_is_admin(adm, u) == u \in adm

\* the ids of a set in ascending order (the table is scanned in key order)
RECURSIVE Ascending(_)
Ascending(S) ==
    IF S = {} THEN <<>>
    ELSE LET m == CHOOSE x \in S : \A y \in S : x <= y
         IN <<m>> \o Ascending(S \ {m})

SubscribedIds(tbl) == {u \in Users : tbl[u] # NoRow /\ tbl[u].subscribed}

get_subscribed_users_all(tbl) == Ascending({u \in Users : tbl[u] # NoRow})

\* SELECT user_id FROM users WHERE subscribed = TRUE
get_subscribed_users(tbl) == Ascending(SubscribedIds(tbl))

Range(s) == {s[k] : k \in 1..Len(s)}

\* ------------------------------------------- Store statements as actions
Op(name, u) == [op |-> name, user |-> u]

DbAddUser(u, p) ==
    /\ users' = add_user(users, u, p, now)
    /\ last_op' = Op("add_user", u)
    /\ UNCHANGED <<admin_users, now, bcastVars>>

DbSubscribeUser(u) ==
    /\ users' = subscribe_user(users, u)
    /\ last_op' = Op("subscribe_user", u)
    /\ UNCHANGED <<admin_users, now, bcastVars>>

DbUnsubscribeUser(u) ==
    /\ users' = unsubscribe_user(users, u)
    /\ last_op' = Op("unsubscribe_user", u)
    /\ UNCHANGED <<admin_users, now, bcastVars>>

DbSetUserLanguage(u, l) ==
    /\ users' = set_user_language(users, u, l)
    /\ last_op' = Op("set_user_language", u)
    /\ UNCHANGED <<admin_users, now, bcastVars>>

DbSetUserTopics(u, t) ==
    /\ users' = set_user_topics(users, u, t)
    /\ last_op' = Op("set_user_topics", u)
    /\ UNCHANGED <<admin_users, now, bcastVars>>

\* the wall clock advances
Tick ==
    /\ now < MaxTime
    /\ now' = now + 1
    /\ UNCHANGED <<users, admin_users, last_op, bcastVars>>

\* ------------------------------------------------------ initial state
EmptyHist ==
    [eligible |-> {}, sendRaised |-> {}, blockedRaised |-> {},
     genFailed |-> {}, storeFailed |-> {}, errorSent |-> {},
     succ |-> {}, fail |-> {}, unsubBy |-> {},
     pace |-> "none", unpaced |-> {}]

InitBcast ==
    /\ trigger = "none"
    /\ admin = 0
    /\ pc = "idle"
    /\ subscribers = <<>>
    /\ idx = 0
    /\ successful_sends = 0
    /\ failed_sends = 0
    /\ user_topics = Unbound
    /\ user_language = Unbound
    /\ news_items = 0
    /\ asset_items = 0
    /\ digest = Unbound
    /\ caught = "none"
    /\ exc = "none"
    /\ msgs = <<>>
    /\ genlog = {}
    /\ replies = <<>>
    /\ hist = EmptyHist

\* nothing registered, nothing granted
EmptyAdminLog == [order |-> <<>>, cmds |-> {}, grants |-> {}]

\* the empty Store, no command issued yet
InitStore ==
    /\ users = [u \in Users |-> NoRow]
    /\ admin_users = {}
    /\ now = 0
    /\ last_op = Op("init", 0)
    /\ InitBcast
    /\ adminlog = EmptyAdminLog

\* ------------------------------------------------- schedule's calendar
\* the instants of a day the model tells apart: each job time, the next
\* second of two of them, and the day's first and last second
DaySlots ==
    <<"00:00:00", "07:00:00", "07:00:01", "08:00:00", "08:00:01",
      "16:30:00", "21:00:00", "23:59:59">>
SlotsPerDay == Len(DaySlots)

\* datetime.weekday(): Monday is 0
Weekdays == 0 .. 6
Tuesday == 1
Saturday == 5
WorkDays == 0 .. 4

\* schedule.every().day.at("07:00")
DailyJob == [days |-> Weekdays, at |-> "07:00:00"]
\* schedule.every().<weekday>.at(t), one job per weekday and time
WeekdayJobs ==
    {[days |-> {d}, at |-> t] :
        d \in WorkDays, t \in {"08:00:00", "16:30:00", "21:00:00"}}
Jobs == {DailyJob} \cup WeekdayJobs

Unregistered == 0 - 1
\* exit_status while the process has not ended
NotExited == 0 - 1
NoJobs == [j \in Jobs |-> Unregistered]

\* clear_telegram_webhook is not running: no attempt, no request, no wait
NoWebhookCall ==
    [attempt |-> 0, posts |-> 0, sleeps |-> 0, last |-> "none",
     status |-> "none", result |-> "none"]

\* the process and the schedule before any start
InitNoProcess ==
    /\ entry = "none"
    /\ env = [token |-> TRUE, key |-> TRUE]
    /\ proc = "off"
    /\ exit_status = NotExited
    /\ wh = NoWebhookCall
    /\ driver = "none"
    /\ clock = 0
    /\ next_run = NoJobs
    /\ fired = {}
    /\ tasks = 0
    /\ runs = [count |-> 0, last |-> <<>>]

\* no call of a fetch function under way
NoCall == [fn |-> "none", topic |-> "all", language |-> "ru", svc |-> "ok", n |-> 0]
NotReturned == [returned |-> FALSE]

\* no callback query handled yet
NoCallback == [user |-> 0, data |-> <<>>, handler |-> "none", reply |-> "none"]

\* no call of a parse function under way
NoContent == [fn |-> "none", content |-> <<>>]
NotParsed == [returned |-> FALSE]

InitNoInput ==
    /\ cb = NoCallback
    /\ parse_in = NoContent
    /\ parse_out = NotParsed

InitNoCall ==
    /\ gen_in = NoCall
    /\ gen_out = NotReturned
    /\ InitNoInput

Init ==
    /\ InitStore
    /\ InitNoProcess
    /\ InitNoCall

\* ------------------------------------------------- content generation
Locale(language) == IF language = "ru" THEN "ru" ELSE "en"

Returned(v) == [raised |-> FALSE, value |-> v]
Raised(e) == [raised |-> TRUE, value |-> e]

fetch_ai_news_raising(topic, language, svc, n) ==
    IF topic \notin TopicKeys \/ svc = "fail" THEN Raised("gen") ELSE Returned(n)

\* fetch_ai_news: n is the number of records parsed from the service's
\* answer; a KeyError (unknown topic) or a service error is caught and
\* gives the empty list
fetch_ai_news(topic, language, svc, n) ==
    IF topic \notin TopicKeys \/ svc = "fail" THEN Returned(0) ELSE Returned(n)

\* fetch_ai_assets: as fetch_ai_news
fetch_ai_assets(topic, language, svc, n) ==
    IF topic \notin TopicKeys \/ svc = "fail" THEN Returned(0) ELSE Returned(n)

generate_news_digest_raising(news, topic, language, svc) ==
    IF svc = "ok"
    THEN Returned([kind |-> "news", lang |-> Locale(language)])
    ELSE Raised("gen")

\* generate_news_digest: the service's text, or on any error the locale's
\* "news temporarily unavailable" text
generate_news_digest(news, topic, language, svc) ==
    IF svc = "ok"
    THEN Returned([kind |-> "news", lang |-> Locale(language)])
    ELSE Returned([kind |-> "news_unavailable", lang |-> Locale(language)])

\* generate_assets_digest: formats the asset records, no service call
generate_assets_digest(assets, topic, language) ==
    Returned([kind |-> "assets", lang |-> Locale(language)])

\* generate_predictions_digest: the service's text, or on any error the
\* locale's "predictions temporarily unavailable" text
generate_predictions_digest(topic, language, svc) ==
    IF svc = "ok"
    THEN Returned([kind |-> "predictions", lang |-> Locale(language)])
    ELSE Returned([kind |-> "predictions_unavailable", lang |-> Locale(language)])

\* get_text: the text of a key in the user's stored language, Russian
\* for a language without translations
get_text(tbl, u, key) ==
    LET l == get_user_language(tbl, u)
    IN [kind |-> key, lang |-> IF l \in Languages THEN l ELSE "ru"]

\* error_msg of send_ai_digest_parts' except clause
ErrorMsg(language) == [kind |-> "error", lang |-> Locale(language)]

Sleep == [kind |-> "sleep", lang |-> "-"]

\* "bot was blocked" in str(e).lower()
IsBlockedSignal(e) == e = "blocked"

\* ------------------------------------------------------ command handlers
\* the display fields the modelled command handlers pass on
HandlerProfile == [username |-> "alice", first_name |-> "Alice", last_name |-> "A"]

\* StockNewsBot.is_admin: with exactly one user row the caller is made admin
IsAdmin(tbl, adm, u) ==
    IF get_user_count(tbl) = 1
    THEN [ok |-> TRUE, admins |-> add_admin(adm, u)]
    ELSE [ok |-> db_is_admin(adm, u), admins |-> adm]

\* /subscribe
subscribe_command(u) ==
    LET t1 == add_user(users, u, HandlerProfile, now) IN
    /\ users' = IF u \in Range(get_subscribed_users(t1)) THEN t1
                ELSE subscribe_user(t1, u)
    /\ UNCHANGED <<admin_users, now, last_op, bcastVars>>

\* /unsubscribe
unsubscribe_command(u) ==
    LET t1 == add_user(users, u, HandlerProfile, now) IN
    /\ users' = IF u \notin Range(get_subscribed_users(t1)) THEN t1
                ELSE unsubscribe_user(t1, u)
    /\ UNCHANGED <<admin_users, now, last_op, bcastVars>>

\* the lang_ru / lang_en buttons: handle_callback, _handle_language_selection
language_callback(u, l) ==
    /\ users' = set_user_language(add_user(users, u, HandlerProfile, now), u, l)
    /\ UNCHANGED <<admin_users, now, last_op, bcastVars>>

\* ------------------------------------------- the Store under its callers
Next ==
    \/ \E u \in Users, p \in Profiles : DbAddUser(u, p) /\ UNCHANGED extVars
    \/ \E u \in Users : DbSubscribeUser(u) /\ UNCHANGED extVars
    \/ \E u \in Users : DbUnsubscribeUser(u) /\ UNCHANGED extVars
    \/ \E u \in Users, l \in Languages : DbSetUserLanguage(u, l) /\ UNCHANGED extVars
    \/ \E u \in Users, t \in TopicChoices : DbSetUserTopics(u, t) /\ UNCHANGED extVars
    \/ Tick /\ UNCHANGED extVars

Spec == Init /\ [][Next]_vars

\* C1: add_user on an id that already has a row never changes that row's
\* subscribed, language or topic_preferences, whatever display names are
\* passed, and touches no other row.
AddUserKeepsPreferences ==
    [][\A u \in Users, p \in Profiles :
        (DbAddUser(u, p) /\ users[u] # NoRow) =>
            /\ users'[u] # NoRow
            /\ users'[u].subscribed = users[u].subscribed
            /\ users'[u].language = users[u].language
            /\ users'[u].topic_preferences = users[u].topic_preferences
            /\ \A v \in Users \ {u} : users'[v] = users[v]]_vars

\* C1 witness: add_user has just run on a row whose three preferences had
\* all been changed from their defaults, and it replaced the display names
\* and last_active
AddUserOnChangedRow ==
    /\ last_op.op = "add_user"
    /\ LET r == users[last_op.user]
       IN /\ r # NoRow
          /\ r.subscribed = FALSE
          /\ r.language = "en"
          /\ r.topic_preferences = "technology"
          /\ r.username = "None"
          /\ r.last_active = MaxTime

\* ------------------------------------------------------ the broadcasts
Cur == subscribers[idx]

Mark(h, field, u) == [h EXCEPT ![field] = @ \cup {u}]

Reply(kind) == [kind |-> kind, successful |-> 0, failed |-> 0, total |-> 0]

\* the confirmation of notify_command: the three counts
Confirmation(s, f, n) ==
    [kind |-> "confirmation", successful |-> s, failed |-> f, total |-> n]

Idle == pc \in {"idle", "done"}

NoLocals ==
    /\ user_topics' = Unbound
    /\ user_language' = Unbound
    /\ news_items' = 0
    /\ asset_items' = 0
    /\ digest' = Unbound
    /\ caught' = "none"
    /\ exc' = "none"
    /\ msgs' = <<>>
    /\ genlog' = {}

\* the routine's locals at the start of a recipient's processing
BeginRecipient(k) ==
    /\ idx' = k
    /\ pc' = "topics"
    /\ NoLocals

\* the loop passes over every second id of the list
AdvanceSkipping ==
    IF idx + 1 < Len(subscribers)
    THEN BeginRecipient(idx + 2)
    ELSE /\ pc' = "after_loop"
         /\ idx' = idx
         /\ NoLocals

\* the for loop takes the next id of the list, or ends
Advance ==
    IF idx < Len(subscribers)
    THEN BeginRecipient(idx + 1)
    ELSE /\ pc' = "after_loop"
         /\ idx' = idx
         /\ NoLocals

ResetBroadcast ==
    /\ subscribers' = <<>>
    /\ idx' = 0
    /\ successful_sends' = 0
    /\ failed_sends' = 0
    /\ hist' = EmptyHist
    /\ UNCHANGED delivVars

\* /notify up to its first await: add_user, the admin check
notify_command(a) ==
    LET t1 == add_user(users, a, HandlerProfile, now)
        r == IsAdmin(t1, admin_users, a)
    IN /\ Idle
       /\ users' = t1
       /\ admin_users' = r.admins
          /\ trigger' = "notify"
       /\ admin' = a
       /\ ResetBroadcast
       /\ IF r.ok
          THEN pc' = "get_subs" /\ replies' = <<>>
          ELSE pc' = "done" /\ replies' = <<Reply("denied")>>
       /\ UNCHANGED <<now, last_op>>

\* /testnotifications up to the call of send_daily_notifications
test_notifications_command(a) ==
    /\ Idle
    /\ trigger' = "test"
    /\ admin' = a
    /\ ResetBroadcast
    /\ IF db_is_admin(admin_users, a)
       THEN pc' = "get_subs" /\ replies' = <<>>
       ELSE pc' = "done" /\ replies' = <<Reply("denied")>>
    /\ UNCHANGED <<storeVars, last_op>>

\* subscribers = self.db.get_subscribed_users(); if not subscribers: ...
GetSubscribers ==
    /\ pc = "get_subs"
    /\ \E ok \in BOOLEAN :
        IF ~ok
        THEN /\ pc' = "outer_except"
             /\ UNCHANGED <<subscribers, idx, successful_sends, failed_sends,
                            delivVars, replies, hist>>
        ELSE LET ids == get_subscribed_users(users) IN
             /\ subscribers' = ids
             /\ IF ids = <<>>
                THEN /\ IF trigger = "notify"
                        THEN /\ replies' = Append(replies, Reply("no_subscribers"))
                             /\ pc' = "done"
                        ELSE /\ replies' = replies
                             /\ pc' = "t_reply"
                     /\ UNCHANGED <<idx, successful_sends, failed_sends, delivVars>>
                ELSE /\ successful_sends' = 0
                     /\ failed_sends' = 0
                     /\ BeginRecipient(1)
                     /\ replies' = replies
             /\ hist' = [hist EXCEPT !.eligible = SubscribedIds(users)]
    /\ UNCHANGED <<storeVars, last_op, trigger, admin>>

\* user_topics = self.db.get_user_topics(user_id)
GetTopics ==
    /\ pc = "topics"
    /\ \E ok \in BOOLEAN :
        IF ok
        THEN /\ user_topics' = get_user_topics(users, Cur)
             /\ pc' = "lang"
             /\ UNCHANGED <<caught, hist>>
        ELSE /\ caught' = "store"
             /\ hist' = Mark(hist, "storeFailed", Cur)
             /\ pc' = "except"
             /\ UNCHANGED user_topics
    /\ UNCHANGED <<storeVars, last_op, trigger, admin, subscribers, idx,
                   successful_sends, failed_sends, user_language, news_items,
                   asset_items, digest, exc, msgs, genlog, replies>>

\* user_language = self.db.get_user_language(user_id)
GetLanguage ==
    /\ pc = "lang"
    /\ \E ok \in BOOLEAN :
        IF ok
        THEN /\ user_language' = get_user_language(users, Cur)
             /\ pc' = "fetch_news"
             /\ UNCHANGED <<caught, hist>>
        ELSE /\ caught' = "store"
             /\ hist' = Mark(hist, "storeFailed", Cur)
             /\ pc' = "except"
             /\ UNCHANGED user_language
    /\ UNCHANGED <<storeVars, last_op, trigger, admin, subscribers, idx,
                   successful_sends, failed_sends, user_topics, news_items,
                   asset_items, digest, exc, msgs, genlog, replies>>

\* news_items = await self.fetch_ai_news(user_topics, user_language)
FetchNews ==
    /\ pc = "fetch_news"
    /\ \E svc \in SvcOutcomes, n \in 0..MaxItems :
        LET r == fetch_ai_news(user_topics, user_language, svc, n) IN
        /\ hist' = IF svc = "fail" THEN Mark(hist, "genFailed", Cur) ELSE hist
        /\ IF r.raised
           THEN caught' = r.value /\ pc' = "except" /\ UNCHANGED news_items
           ELSE news_items' = r.value /\ pc' = "fetch_assets" /\ UNCHANGED caught
    /\ UNCHANGED <<storeVars, last_op, trigger, admin, subscribers, idx,
                   successful_sends, failed_sends, user_topics, user_language,
                   asset_items, digest, exc, msgs, genlog, replies>>

\* asset_items = await self.fetch_ai_assets(user_topics, user_language)
FetchAssets ==
    /\ pc = "fetch_assets"
    /\ \E svc \in SvcOutcomes, n \in 0..MaxItems :
        LET r == fetch_ai_assets(user_topics, user_language, svc, n) IN
        /\ hist' = IF svc = "fail" THEN Mark(hist, "genFailed", Cur) ELSE hist
        /\ IF r.raised
           THEN caught' = r.value /\ pc' = "except" /\ UNCHANGED asset_items
           ELSE asset_items' = r.value /\ pc' = "news" /\ UNCHANGED caught
    /\ UNCHANGED <<storeVars, last_op, trigger, admin, subscribers, idx,
                   successful_sends, failed_sends, user_topics, user_language,
                   news_items, digest, exc, msgs, genlog, replies>>

GenLog(svc, call) == IF svc = "fail" THEN genlog \cup {call} ELSE genlog

HGen(h, svc) == IF svc = "fail" THEN Mark(h, "genFailed", Cur) ELSE h

\* a send attempt to the current recipient: unpaced when the broadcast's
\* previous send attempt was not followed by a sleep
Attempted(h) ==
    [h EXCEPT !.unpaced = IF h.pace = "send" THEN @ \cup {Cur} ELSE @,
              !.pace = "send"]

\* await asyncio.sleep(...)
Slept(h) == [h EXCEPT !.pace = "sleep"]

\* what one bot.send_message to the current recipient leaves in the history
HSend(h, snd) ==
    LET h1 == Attempted(h)
        h2 == IF snd = "ok" THEN h1 ELSE Mark(h1, "sendRaised", Cur)
    IN IF snd = "blocked" THEN Mark(h2, "blockedRaised", Cur) ELSE h2

\* a section whose send raised is passed over and the next one is sent
SendSectionGoesOn(r, svc, snd, sent, nextpc) ==
    IF r.raised
    THEN /\ caught' = r.value
         /\ pc' = "except"
         /\ hist' = HGen(hist, svc)
         /\ UNCHANGED msgs
    ELSE /\ msgs' = IF snd = "ok" THEN msgs \o sent ELSE msgs
         /\ pc' = nextpc
         /\ hist' = HSend(HGen(hist, svc), snd)
         /\ caught' = IF snd = "ok" THEN caught ELSE snd

\* one section of send_ai_digest_parts: the generated text r is sent; an
\* exception of either call leads to the except clause
SendSection(r, svc, snd, sent, nextpc) ==
    IF r.raised
    THEN /\ caught' = r.value
         /\ pc' = "except"
         /\ hist' = HGen(hist, svc)
         /\ UNCHANGED msgs
    ELSE IF snd = "ok"
    THEN /\ msgs' = msgs \o sent
         /\ pc' = nextpc
         /\ hist' = IF sent[Len(sent)] = Sleep
                    THEN Slept(HSend(HGen(hist, svc), snd))
                    ELSE HSend(HGen(hist, svc), snd)
         /\ UNCHANGED caught
    ELSE /\ caught' = snd
         /\ pc' = "except"
         /\ hist' = HSend(HGen(hist, svc), snd)
         /\ UNCHANGED msgs

\* send_ai_digest_parts: news_digest = await self.generate_news_digest(...);
\* send_message; sleep(0.5)
SendNewsDigest ==
    /\ pc = "news"
    /\ trigger = "test"
    /\ \E svc \in SvcOutcomes, snd \in SendOutcomes :
        LET r == generate_news_digest(news_items, user_topics, user_language, svc) IN
        /\ genlog' = GenLog(svc, "news")
        /\ SendSection(r, svc, snd, <<r.value, Sleep>>,
                       IF asset_items > 0 THEN "assets" ELSE "pred")
    /\ UNCHANGED <<storeVars, last_op, trigger, admin, subscribers, idx,
                   successful_sends, failed_sends, user_topics, user_language,
                   news_items, asset_items, digest, exc, replies>>

\* send_ai_digest_parts: if asset_items: generate_assets_digest;
\* send_message; sleep(0.5)
SendAssetsDigest ==
    /\ pc = "assets"
    /\ \E snd \in SendOutcomes :
        LET r == generate_assets_digest(asset_items, user_topics, user_language) IN
        SendSection(r, "ok", snd, <<r.value, Sleep>>, "pred")
    /\ UNCHANGED <<storeVars, last_op, trigger, admin, subscribers, idx,
                   successful_sends, failed_sends, user_topics, user_language,
                   news_items, asset_items, digest, exc, genlog, replies>>

\* send_ai_digest_parts: predictions_digest = await
\* self.generate_predictions_digest(...); send_message; return
SendPredictionsDigest ==
    /\ pc = "pred"
    /\ \E svc \in SvcOutcomes, snd \in SendOutcomes :
        LET r == generate_predictions_digest(user_topics, user_language, svc) IN
        /\ genlog' = GenLog(svc, "predictions")
        /\ SendSection(r, svc, snd, <<r.value>>, "l_ok")
    /\ UNCHANGED <<storeVars, last_op, trigger, admin, subscribers, idx,
                   successful_sends, failed_sends, user_topics, user_language,
                   news_items, asset_items, digest, exc, replies>>

\* send_ai_digest_parts, except Exception: error_msg is built from
\* user_language (unbound when a Store read raised: UnboundLocalError) and
\* sent outside any try
DigestPartsExcept ==
    /\ pc = "except"
    /\ trigger = "test"
    /\ IF user_language = Unbound
       THEN /\ exc' = "unbound"
            /\ pc' = "l_except"
            /\ UNCHANGED <<hist, msgs>>
       ELSE \E snd \in SendOutcomes :
            IF snd = "ok"
            THEN /\ msgs' = Append(msgs, ErrorMsg(user_language))
                 /\ pc' = "l_ok"
                 /\ hist' = Mark(Attempted(hist), "errorSent", Cur)
                 /\ UNCHANGED exc
            ELSE /\ exc' = snd
                 /\ pc' = "l_except"
                 /\ hist' = HSend(hist, snd)
                 /\ UNCHANGED msgs
    /\ UNCHANGED <<storeVars, last_op, trigger, admin, subscribers, idx,
                   successful_sends, failed_sends, user_topics, user_language,
                   news_items, asset_items, digest, caught, genlog, replies>>

\* generate_ai_digest: digest = await self.generate_news_digest(...); return
GenerateAiDigest ==
    /\ pc = "news"
    /\ trigger = "notify"
    /\ \E svc \in SvcOutcomes :
        LET r == generate_news_digest(news_items, user_topics, user_language, svc) IN
        /\ genlog' = GenLog(svc, "news")
        /\ hist' = HGen(hist, svc)
        /\ IF r.raised
           THEN caught' = r.value /\ pc' = "except" /\ UNCHANGED digest
           ELSE digest' = r.value /\ pc' = "n_send" /\ UNCHANGED caught
    /\ UNCHANGED <<storeVars, last_op, trigger, admin, subscribers, idx,
                   successful_sends, failed_sends, user_topics, user_language,
                   news_items, asset_items, exc, msgs, replies>>

\* generate_ai_digest, except Exception: return self.get_text(user_id,
\* 'error_fetching'), which reads the user's language from the Store
GenerateAiDigestExcept ==
    /\ pc = "except"
    /\ trigger = "notify"
    /\ \E ok \in BOOLEAN :
        IF ok
        THEN /\ digest' = get_text(users, Cur, "error_fetching")
             /\ pc' = "n_send"
             /\ UNCHANGED <<exc, hist>>
        ELSE /\ exc' = "store"
             /\ pc' = "l_except"
             /\ hist' = Mark(hist, "storeFailed", Cur)
             /\ UNCHANGED digest
    /\ UNCHANGED <<storeVars, last_op, trigger, admin, subscribers, idx,
                   successful_sends, failed_sends, user_topics, user_language,
                   news_items, asset_items, caught, msgs, genlog, replies>>

\* notify loop: send_message(text = get_text(user_id, 'notification_success')
\* + digest)
NotifySend ==
    /\ pc = "n_send"
    /\ \E ok \in BOOLEAN, snd \in SendOutcomes :
        IF ~ok
        THEN /\ exc' = "store"
             /\ pc' = "l_except"
             /\ hist' = Mark(hist, "storeFailed", Cur)
             /\ UNCHANGED msgs
        ELSE IF snd = "ok"
        THEN /\ msgs' = Append(msgs, get_text(users, Cur, "notification"))
             /\ pc' = "l_ok"
             /\ hist' = HSend(hist, snd)
             /\ UNCHANGED exc
        ELSE /\ exc' = snd
             /\ pc' = "l_except"
             /\ hist' = HSend(hist, snd)
             /\ UNCHANGED msgs
    /\ UNCHANGED <<storeVars, last_op, trigger, admin, subscribers, idx,
                   successful_sends, failed_sends, user_topics, user_language,
                   news_items, asset_items, digest, caught, genlog, replies>>

\* successful_sends += 1
NextSuccessful(n) == n + 1

NextFailedSame(n) == n

\* failed_sends += 1
NextFailed(n) == n + 1

\* the loop body returned normally: successful_sends += 1, sleep, next id
LoopOk ==
    /\ pc = "l_ok"
    /\ successful_sends' = NextSuccessful(successful_sends)
    /\ hist' = Slept(Mark(hist, "succ", Cur))
    /\ Advance
    /\ UNCHANGED <<storeVars, last_op, trigger, admin, subscribers,
                   failed_sends, replies>>

\* except Exception in the loop body: failed_sends += 1 and, on the
\* blocked signal, unsubscribe_user, whose own exception leaves the loop
LoopExcept ==
    /\ pc = "l_except"
    /\ failed_sends' = NextFailed(failed_sends)
    /\ IF IsBlockedSignal(exc)
       THEN \E ok \in BOOLEAN :
            IF ok
            THEN /\ users' = unsubscribe_user(users, Cur)
                 /\ hist' = Mark(Mark(hist, "fail", Cur), "unsubBy", Cur)
                 /\ Advance
            ELSE /\ pc' = "outer_except"
                 /\ hist' = Mark(Mark(hist, "fail", Cur), "storeFailed", Cur)
                 /\ idx' = idx
                 /\ NoLocals
                 /\ UNCHANGED users
       ELSE /\ hist' = Mark(hist, "fail", Cur)
            /\ Advance
            /\ UNCHANGED users
    /\ UNCHANGED <<admin_users, now, last_op, trigger, admin, subscribers,
                   successful_sends, replies>>

\* after the loop: the log line of send_daily_notifications, the
\* confirmation reply of notify_command
AfterLoop ==
    /\ pc = "after_loop"
    /\ IF trigger = "notify"
       THEN /\ replies' = Append(replies, Confirmation(successful_sends,
                                     failed_sends, Len(subscribers)))
            /\ pc' = "done"
       ELSE /\ replies' = replies
            /\ pc' = "t_reply"
    /\ UNCHANGED <<storeVars, last_op, trigger, admin, subscribers, idx,
                   successful_sends, failed_sends, delivVars, hist>>

\* the outer except Exception: send_daily_notifications logs and returns,
\* notify_command replies error_notification
OuterExcept ==
    /\ pc = "outer_except"
    /\ IF trigger = "notify"
       THEN /\ replies' = Append(replies, Reply("error_notification"))
            /\ pc' = "done"
       ELSE /\ replies' = replies
            /\ pc' = "t_reply"
    /\ UNCHANGED <<storeVars, last_op, trigger, admin, subscribers, idx,
                   successful_sends, failed_sends, delivVars, hist>>

\* test_notifications_command after send_daily_notifications returned
TestReply ==
    /\ pc = "t_reply"
    /\ replies' = Append(replies, Reply("test_sent"))
    /\ pc' = "done"
    /\ UNCHANGED <<storeVars, last_op, trigger, admin, subscribers, idx,
                   successful_sends, failed_sends, delivVars, hist>>

\* ------------------------------------- the bot: commands and broadcasts
NextBroadcast ==
    \/ \E u \in Users : subscribe_command(u) /\ UNCHANGED extVars
    \/ \E u \in Users : unsubscribe_command(u) /\ UNCHANGED extVars
    \/ \E u \in Users, l \in Languages : language_callback(u, l) /\ UNCHANGED extVars
    \/ \E a \in Users : notify_command(a) /\ UNCHANGED extVars
    \/ \E a \in Users : test_notifications_command(a) /\ UNCHANGED extVars
    \/ GetSubscribers /\ UNCHANGED extVars
    \/ GetTopics /\ UNCHANGED extVars
    \/ GetLanguage /\ UNCHANGED extVars
    \/ FetchNews /\ UNCHANGED extVars
    \/ FetchAssets /\ UNCHANGED extVars
    \/ SendNewsDigest /\ UNCHANGED extVars
    \/ SendAssetsDigest /\ UNCHANGED extVars
    \/ SendPredictionsDigest /\ UNCHANGED extVars
    \/ DigestPartsExcept /\ UNCHANGED extVars
    \/ GenerateAiDigest /\ UNCHANGED extVars
    \/ GenerateAiDigestExcept /\ UNCHANGED extVars
    \/ NotifySend /\ UNCHANGED extVars
    \/ LoopOk /\ UNCHANGED extVars
    \/ LoopExcept /\ UNCHANGED extVars
    \/ AfterLoop /\ UNCHANGED extVars
    \/ OuterExcept /\ UNCHANGED extVars
    \/ TestReply /\ UNCHANGED extVars

SpecBroadcast == Init /\ [][NextBroadcast]_vars

\* -------------------------------------------------- broadcast properties
Enumerated == Range(subscribers)

\* positions inside the processing of one recipient
RecipientPcs ==
    {"topics", "lang", "fetch_news", "fetch_assets", "news", "assets", "pred",
     "except", "n_send", "l_ok", "l_except"}

\* the ids that come after k in the enumerated list
After(k) == {subscribers[j] : j \in {i \in 1..Len(subscribers) :
                \E m \in 1..Len(subscribers) : subscribers[m] = k /\ i > m}}

\* C2: an exception raised while a subscriber k is processed never aborts
\* the loop: every subscriber after k is processed too, and k is counted as
\* a failure.  Stated for the exceptions of message sends in broadcasts
\* where no Store access fails, which the claim covers.
ExceptionNeverAbortsLoop ==
    (pc = "done" /\ hist.storeFailed = {}) =>
        \A k \in hist.sendRaised :
            /\ k \in hist.fail
            /\ After(k) \subseteq hist.succ \cup hist.fail

\* C3: after a broadcast an enumerated subscriber has been unsubscribed by
\* it if and only if a delivery to that subscriber failed with the "bot was
\* blocked" signal.  Stated for broadcasts where no Store access fails,
\* which the claim covers.
UnsubscribedIffBlocked ==
    (pc = "done" /\ hist.storeFailed = {}) =>
        \A x \in Enumerated : x \in hist.unsubBy <=> x \in hist.blockedRaised

\* C4: a broadcast processes, and so sends to, only ids that were
\* subscribed when it read the list, and with an empty list it contacts
\* nobody and changes no Store row.
OnlySubscribersAreContacted ==
    /\ [](pc \in RecipientPcs => Cur \in hist.eligible)
    /\ [](hist.sendRaised \cup hist.errorSent \cup hist.succ \cup hist.fail
            \subseteq hist.eligible)
    /\ []((pc \notin {"idle", "get_subs"} /\ subscribers = <<>>) =>
            pc \notin RecipientPcs /\ hist.succ \cup hist.fail = {})
    /\ [][(pc \notin {"idle", "done"} /\ pc' # pc /\ subscribers' = <<>>) =>
            (users' = users /\ admin_users' = admin_users)]_vars

\* C4 witness: a broadcast delivered to a subscriber while another user
\* with a row was not subscribed when the list was read, and finished
NonSubscriberSkipped ==
    /\ pc = "done"
    /\ trigger = "test"
    /\ hist.succ # {}
    /\ \E u \in Users : users[u] # NoRow /\ u \notin hist.eligible
                        /\ u \notin hist.succ \cup hist.fail

\* C5: when the loop finishes the two counters add up to the number of
\* enumerated subscribers, each of which is counted in exactly one of them.
CountersPartitionSubscribers ==
    pc = "after_loop" =>
        /\ successful_sends + failed_sends = Len(subscribers)
        /\ hist.succ \cup hist.fail = Enumerated
        /\ hist.succ \cap hist.fail = {}
        /\ successful_sends = Cardinality(hist.succ)
        /\ failed_sends = Cardinality(hist.fail)

\* C5 witness: a loop over two subscribers ends with one success and one
\* failure
OneSuccessOneFailure ==
    /\ pc = "after_loop"
    /\ successful_sends = 1
    /\ failed_sends = 1

\* exactly one enumerated subscriber had a failing generation call, and no
\* message send and no Store access failed
OneGenerationFailureOnly ==
    /\ pc = "after_loop"
    /\ Cardinality(hist.genFailed) = 1
    /\ hist.sendRaised = {}
    /\ hist.storeFailed = {}

\* C6 as claimed: with one subscriber's generation call raising and all
\* sends succeeding, the broadcast ends with N-1 successes and 1 failure.
GenerationFailureCountsAsFailure ==
    OneGenerationFailureOnly =>
        /\ successful_sends = Len(subscribers) - 1
        /\ failed_sends = 1

\* C6 as amended: with one subscriber's generation call raising and all
\* sends and Store accesses succeeding, every one of the N subscribers,
\* the one with the failing call included, is delivered to without an error
\* message, and the broadcast ends with N successes and 0 failures.
GenerationFailureStillDelivered ==
    OneGenerationFailureOnly =>
        /\ successful_sends = Len(subscribers)
        /\ failed_sends = 0
        /\ hist.succ = Enumerated
        /\ hist.errorSent = {}

\* C6 witness: a loop over two subscribers ended, one of them with a
\* failing generation call, nothing else failing
OneOfTwoGenerationsFailed ==
    /\ OneGenerationFailureOnly
    /\ Len(subscribers) = 2

\* the sections send_ai_digest_parts sends when no send and no Store read
\* fails: news, then assets when any were parsed, then predictions, each
\* generated text or the locale's "temporarily unavailable" text
ExpectedSections ==
    LET l == Locale(user_language)
        news == [kind |-> IF "news" \in genlog THEN "news_unavailable" ELSE "news",
                 lang |-> l]
        pred == [kind |-> IF "predictions" \in genlog
                          THEN "predictions_unavailable" ELSE "predictions",
                 lang |-> l]
    IN <<news, Sleep>>
       \o (IF asset_items > 0 THEN <<[kind |-> "assets", lang |-> l], Sleep>>
           ELSE <<>>)
       \o <<pred>>

\* C7: a failure of the text-generation service for a section never aborts
\* the recipient's delivery: no generation failure reaches an except clause,
\* and a delivery whose sends succeed consists of the news section (the
\* locale's placeholder when its generation failed), the assets section when
\* assets were parsed, and the predictions section (likewise).
GenerationFailureDegradesSection ==
    /\ caught # "gen"
    /\ exc # "gen"
    /\ (trigger = "test" /\ pc = "l_ok" /\ caught = "none") =>
            msgs = ExpectedSections

\* C7 witness: a delivery in English whose news generation failed has
\* returned after sending the placeholder, the assets and the predictions
NewsPlaceholderThenRest ==
    /\ trigger = "test"
    /\ pc = "l_ok"
    /\ caught = "none"
    /\ genlog = {"news"}
    /\ asset_items > 0
    /\ user_language = "en"
    /\ msgs = <<[kind |-> "news_unavailable", lang |-> "en"], Sleep,
                [kind |-> "assets", lang |-> "en"], Sleep,
                [kind |-> "predictions", lang |-> "en"]>>

\* C8: in send_daily_notifications a recipient for whom a message send
\* raised is counted in failed_sends and not in successful_sends.  Stated
\* for broadcasts where no Store access fails, which the claim covers.
SendExceptionIsFailure ==
    (trigger = "test" /\ pc = "after_loop" /\ hist.storeFailed = {}) =>
        \A x \in hist.sendRaised : x \in hist.fail /\ x \notin hist.succ

\* C9: send_ai_digest_parts never propagates an exception to its caller:
\* the loop of send_daily_notifications never enters its except clause.
\* Stated for broadcasts where no Store access fails, which the claim
\* covers.
DigestPartsNeverRaises ==
    (trigger = "test" /\ hist.storeFailed = {}) => pc # "l_except"

\* the replies of the running command that report the broadcast's counts
Summaries ==
    SelectSeq(replies, LAMBDA r : r.kind = "confirmation")

\* C10: a manual broadcast over at least one subscriber ends with exactly
\* one final reply to the admin, which reports the successful and failed
\* counts.  Stated for broadcasts where no Store access fails, which the
\* claim covers.
AdminGetsCountsSummary ==
    (pc = "done" /\ subscribers # <<>> /\ hist.storeFailed = {}) =>
        /\ Len(Summaries) = 1
        /\ replies[Len(replies)] = Confirmation(successful_sends, failed_sends,
                                                Len(subscribers))

\* the subscribed flag of every row that exists before a step is the same
\* after it
SubscribedFlagsKept ==
    \A u \in Users : users[u] # NoRow =>
        users'[u] # NoRow /\ users'[u].subscribed = users[u].subscribed

\* C11: /notify or /testnotifications from an id that the admin check
\* does not accept (not in the admin set, and not the sole registered
\* user) is answered with the denial only: no broadcast runs on its behalf,
\* nobody is enumerated or contacted and no subscribed flag changes.
NonAdminCannotBroadcast ==
    /\ [](pc \notin {"idle", "done"} => admin \in admin_users)
    /\ []((pc = "done" /\ admin \notin admin_users) =>
            /\ replies = <<Reply("denied")>>
            /\ subscribers = <<>>
            /\ hist = EmptyHist)
    /\ [][\A a \in Users :
            ((notify_command(a) \/ test_notifications_command(a))
                /\ a \notin admin_users') =>
            (pc' = "done" /\ SubscribedFlagsKept)]_vars

\* C11 witness: a registered user outside the admin set has been denied
\* /notify while another user is subscribed and an admin exists
NonAdminDenied ==
    /\ pc = "done"
    /\ trigger = "notify"
    /\ admin \notin admin_users
    /\ admin_users # {}
    /\ users[admin] # NoRow
    /\ replies = <<Reply("denied")>>
    /\ \E u \in Users \ {admin} : is_subscribed(users, u)

\* ------------------------------------------------- the admin commands
\* The application is built without concurrent_updates, so one update's
\* handler runs to its end before the next update is handled: a handler is
\* one step.
AdminCommands == {"start", "subscribe", "notify", "addadmin", "makeadmin"}

\* what /addadmin can be given: a user id, no argument, or text that is
\* not a number
AdminArgs ==
    {[kind |-> "id", id |-> u] : u \in Users}
        \cup {[kind |-> "none", id |-> 0], [kind |-> "text", id |-> 0]}

\* the grant of one admin row: to whom, by whose command, through which
\* statement, and whether the issuer was in admin_users before the command
Grant(to, by, via, wasAdmin) ==
    [to |-> to, by |-> by, via |-> via, byAdmin |-> wasAdmin]

\* the history after command cmd of user u, which left the users table as
\* t1 and added the rows gs to admin_users
Logged(u, cmd, t1, gs) ==
    [order  |-> IF users[u] = NoRow /\ t1[u] # NoRow
                THEN Append(adminlog.order, u) ELSE adminlog.order,
     cmds   |-> adminlog.cmds \cup {cmd},
     grants |-> adminlog.grants \cup {g \in gs : g.to \notin admin_users}]

\* /start: add_user, then "make first user admin automatically"
start_command(u) ==
    LET t1 == add_user(users, u, HandlerProfile, now)
        first == get_user_count(t1) = 1
    IN /\ users' = t1
       /\ admin_users' = IF first THEN add_admin(admin_users, u) ELSE admin_users
       /\ adminlog' = Logged(u, "start", t1,
                IF first THEN {Grant(u, u, "bootstrap", u \in admin_users)} ELSE {})
       /\ UNCHANGED <<now, last_op, bcastVars>>

\* /subscribe, with the registration recorded
subscribe_logged(u) ==
    /\ subscribe_command(u)
    /\ adminlog' = Logged(u, "subscribe", users', {})

\* /notify up to the admin check: add_user, is_admin
notify_admin_check(a) ==
    LET t1 == add_user(users, a, HandlerProfile, now)
        r == IsAdmin(t1, admin_users, a)
    IN /\ users' = t1
       /\ admin_users' = r.admins
       /\ adminlog' = Logged(a, "notify", t1,
                {Grant(x, a, "bootstrap", a \in admin_users) :
                    x \in r.admins \ admin_users})
       /\ UNCHANGED <<now, last_op, bcastVars>>

\* /addadmin <arg>: is_admin (without add_user), then add_admin of the
\* parsed id
add_admin_command(a, arg) ==
    LET r == IsAdmin(users, admin_users, a)
        named == r.ok /\ arg.kind = "id"
    IN /\ admin_users' = IF named THEN add_admin(r.admins, arg.id) ELSE r.admins
       /\ adminlog' = Logged(a, "addadmin", users,
                {Grant(x, a, "bootstrap", a \in admin_users) :
                    x \in r.admins \ admin_users}
                \cup (IF named /\ arg.id \notin r.admins
                      THEN {Grant(arg.id, a, "addadmin", a \in admin_users)}
                      ELSE {}))
       /\ UNCHANGED <<users, now, last_op, bcastVars>>

\* /makeadmin: add_user; already admin, or at most two users registered
make_admin_command(u) ==
    LET t1 == add_user(users, u, HandlerProfile, now)
        granted == ~db_is_admin(admin_users, u) /\ get_user_count(t1) <= 2
    IN /\ users' = t1
       /\ admin_users' = IF granted THEN add_admin(admin_users, u) ELSE admin_users
       /\ adminlog' = Logged(u, "makeadmin", t1,
                IF granted THEN {Grant(u, u, "makeadmin", FALSE)} ELSE {})
       /\ UNCHANGED <<now, last_op, bcastVars>>

NextAdmin ==
    \/ \E u \in Users : start_command(u) /\ UNCHANGED <<procVars, schedVars, genVars, restVars>>
    \/ \E u \in Users : subscribe_logged(u) /\ UNCHANGED <<procVars, schedVars, genVars, restVars>>
    \/ \E a \in Users : notify_admin_check(a) /\ UNCHANGED <<procVars, schedVars, genVars, restVars>>
    \/ \E a \in Users, arg \in AdminArgs : add_admin_command(a, arg) /\ UNCHANGED <<procVars, schedVars, genVars, restVars>>
    \/ \E u \in Users : make_admin_command(u) /\ UNCHANGED <<procVars, schedVars, genVars, restVars>>

SpecAdmin == Init /\ [][NextAdmin]_vars

\* the id whose row was inserted first
FirstRegistered == adminlog.order[1]

\* C12: starting from an empty Store with registrations made through
\* /start only, in any order of the users' handlers, the admin check
\* accepts the first registered id, and does not accept an id registered
\* after it.
BootstrapAdmin ==
    (adminlog.cmds = {"start"}) =>
        /\ IsAdmin(users, admin_users, FirstRegistered).ok
        /\ \A i \in 2..Len(adminlog.order) :
                ~IsAdmin(users, admin_users, adminlog.order[i]).ok

\* C12 witness: two distinct ids have registered through /start
TwoStarted ==
    /\ adminlog.cmds = {"start"}
    /\ Len(adminlog.order) = 2
    /\ admin_users = {FirstRegistered}

\* C13: every row of admin_users was added either implicitly for the
\* first registered id, or for an id named in /addadmin by an issuer who
\* was an admin already (or is the first registered user); at most one id
\* is granted admin implicitly.
OnlyFirstUserImplicitAdmin ==
    /\ \A g \in adminlog.grants :
          \/ g.via \in {"bootstrap", "makeadmin"} /\ g.to = FirstRegistered
          \/ g.via = "addadmin" /\ (g.byAdmin \/ g.by = FirstRegistered)
    /\ Cardinality({g.to : g \in {h \in adminlog.grants :
                                    h.via # "addadmin"}}) <= 1

\* --------------------------------------------- the process and its scheduler
MaxClock == MaxDays * SlotsPerDay - 1

Weekday(c) == (c \div SlotsPerDay) % 7
TimeOf(c) == DaySlots[(c % SlotsPerDay) + 1]

\* instant c is on one of the job's days at the job's time
Matches(j, c) == Weekday(c) \in j.days /\ TimeOf(c) = j.at

NextRunSame(j, c) == c

NextRunAnyDay(j, c) ==
    CHOOSE c2 \in (c + 1) .. (c + 7 * SlotsPerDay) :
        /\ TimeOf(c2) = j.at
        /\ \A c3 \in (c + 1) .. (c2 - 1) : TimeOf(c3) # j.at

\* schedule's next_run of a job scheduled or run at instant c: the first
\* instant after c that is on the job's day at the job's time
NextRunAfter(j, c) ==
    CHOOSE c2 \in (c + 1) .. (c + 7 * SlotsPerDay) :
        /\ Matches(j, c2)
        /\ \A c3 \in (c + 1) .. (c2 - 1) : ~Matches(j, c3)

\* Job.should_run at instant c
should_run(j, c) == next_run[j] # Unregistered /\ c >= next_run[j]

\* schedule_daily_summaries: the sixteen jobs are registered
schedule_daily_summaries == [j \in Jobs |-> NextRunAfter(j, clock)]

\* the process is started through stock_bot.main or railway_start.main, or
\* the bot's own coroutine run_scheduler drives the schedule
InitProcess ==
    /\ InitStore
    /\ entry \in {"stock_bot.main", "railway_start.main", "run_scheduler"}
    /\ env \in [token : BOOLEAN, key : BOOLEAN]
    /\ entry = "run_scheduler" => env = [token |-> TRUE, key |-> TRUE]
    /\ proc = IF entry = "railway_start.main" THEN "rw_start" ELSE
              IF entry = "stock_bot.main" THEN "sb_main" ELSE "bot_start"
    /\ exit_status = NotExited
    /\ wh = NoWebhookCall
    /\ driver = "none"
    /\ clock = 0
    /\ next_run = NoJobs
    /\ fired = {}
    /\ tasks = 0
    /\ runs = [count |-> 0, last |-> <<>>]
    /\ InitNoCall

\* time passes while no loop calls run_pending
ClockAdvance ==
    /\ driver \notin {"thread", "coroutine"}
    /\ proc \notin {"sb_thread"}
    /\ clock < MaxClock
    /\ clock' = clock + 1
    /\ UNCHANGED <<procVars, driver, next_run, fired, tasks, runs>>

\* railway_start.main: the token check
RailwayCheckToken ==
    /\ proc = "rw_start"
    /\ IF ~env.token
       THEN proc' = "exited" /\ exit_status' = 1
       ELSE proc' = "rw_webhook" /\ UNCHANGED exit_status
    /\ UNCHANGED <<entry, env, wh, schedVars>>

\* for attempt in range(3)
MaxAttempts == 3
\* if attempt < 2: time.sleep(5)
LastAttempt == 2

\* what requests.post does: a response with status 200, a response with
\* another status, or an exception (the timeout included)
PostOutcomes == {"200", "other_status", "exception"}

SleepsAfterAlways(attempt) == TRUE

\* if attempt < 2
SleepsAfter(attempt) == attempt < LastAttempt

\* the for statement takes the next value of range(3), or the function
\* logs its error and returns False
NextAttempt(w) ==
    IF w.attempt + 1 < MaxAttempts
    THEN [to |-> "wh_post", wh |-> [w EXCEPT !.attempt = @ + 1]]
    ELSE [to |-> "rw_cleared", wh |-> [w EXCEPT !.result = "False"]]

\* railway_start.main calls clear_telegram_webhook(bot_token): the loop
\* starts with attempt = 0
RailwayClearWebhook ==
    /\ proc = "rw_webhook"
    /\ proc' = "wh_post"
    /\ wh' = NoWebhookCall
    /\ UNCHANGED <<entry, env, exit_status, schedVars>>

\* one pass of the loop body up to the sleep: the request, return True on
\* status 200, a warning otherwise
ClearWebhookPost ==
    /\ proc = "wh_post"
    /\ \E o \in PostOutcomes :
        LET w == [wh EXCEPT !.posts = @ + 1, !.last = "post", !.status = o] IN
        IF o = "200"
        THEN /\ wh' = [w EXCEPT !.result = "True"]
             /\ proc' = "rw_cleared"
        ELSE IF SleepsAfter(w.attempt)
        THEN /\ wh' = w
             /\ proc' = "wh_sleep"
        ELSE /\ wh' = NextAttempt(w).wh
             /\ proc' = NextAttempt(w).to
    /\ UNCHANGED <<entry, env, exit_status, schedVars>>

\* time.sleep(5) at the end of the loop body, then the next pass
ClearWebhookSleep ==
    /\ proc = "wh_sleep"
    /\ LET w == [wh EXCEPT !.sleeps = @ + 1, !.last = "sleep"] IN
        /\ wh' = NextAttempt(w).wh
        /\ proc' = NextAttempt(w).to
    /\ UNCHANGED <<entry, env, exit_status, schedVars>>

\* railway_start.main after clear_telegram_webhook returned, True or False:
\* a log line, the wait, then the call of stock_bot.main
RailwayStartBot ==
    /\ proc = "rw_cleared"
    /\ proc' = "sb_main"
    /\ wh' = NoWebhookCall
    /\ UNCHANGED <<entry, env, exit_status, schedVars>>

\* stock_bot.main: the two credential checks; on a missing credential it
\* logs and returns, and so do its callers: the interpreter ends with
\* status 0
MainCheckCredentials ==
    /\ proc = "sb_main"
    /\ IF ~env.token \/ ~env.key
       THEN proc' = "exited" /\ exit_status' = 0
       ELSE proc' = "sb_schedule" /\ UNCHANGED exit_status
    /\ UNCHANGED <<entry, env, wh, schedVars>>

\* stock_bot.main: bot.schedule_daily_summaries()
MainSchedule ==
    /\ proc = "sb_schedule"
    /\ next_run' = schedule_daily_summaries
    /\ proc' = "sb_thread"
    /\ UNCHANGED <<entry, env, wh, exit_status, driver, clock, fired, tasks, runs>>

\* stock_bot.main: scheduler_thread.start()
StartSchedulerThread ==
    /\ proc = "sb_thread"
    /\ driver' = "thread"
    /\ proc' = "sb_polling"
    /\ UNCHANGED <<entry, env, wh, exit_status, clock, next_run, fired, tasks, runs>>

\* stock_bot.main: the webhook is cleared (either result) and run_polling
\* starts; an exception of run_polling is logged, main returns and the
\* daemon thread ends with the process
RunPolling ==
    /\ proc = "sb_polling"
    /\ \E ok \in BOOLEAN :
        IF ok
        THEN proc' = "polling" /\ UNCHANGED <<exit_status, driver>>
        ELSE /\ proc' = "exited"
             /\ exit_status' = 0
             /\ driver' = IF driver = "thread" THEN "stopped" ELSE driver
    /\ UNCHANGED <<entry, env, wh, clock, next_run, fired, tasks, runs>>

\* StockNewsBot.start and run_scheduler: the jobs are registered and the
\* coroutine's loop runs on the application's event loop
StartCoroutineDriver ==
    /\ proc = "bot_start"
    /\ next_run' = schedule_daily_summaries
    /\ driver' = "coroutine"
    /\ proc' = "polling"
    /\ UNCHANGED <<entry, env, wh, exit_status, clock, fired, tasks, runs>>

\* the job function, lambda: asyncio.create_task(self.send_daily_notifications()):
\* create_task needs a running event loop in the calling thread, which
\* the coroutine has and the scheduler thread has not (RuntimeError)
job_func(d) ==
    IF d = "coroutine" THEN Returned("task") ELSE Raised("RuntimeError")

Firing(j, c) == [job |-> j, at |-> c]

\* one iteration of the scheduler loop, a second after the previous one:
\* schedule.run_pending() runs the due jobs in the order of their
\* next_run; Job.run calls the job function and then sets the next run;
\* an exception of the job function leaves run_pending and the loop
SchedulerTick ==
    /\ driver \in {"thread", "coroutine"}
    /\ tasks = 0
    /\ clock < MaxClock
    /\ clock' = clock + 1
    /\ LET c == clock + 1
           due == {j \in Jobs : should_run(j, c)}
       IN IF due = {}
          THEN UNCHANGED <<driver, next_run, fired, tasks>>
          ELSE IF job_func(driver).raised
          THEN LET j == CHOOSE x \in due :
                            \A y \in due : next_run[x] <= next_run[y]
               IN /\ fired' = fired \cup {Firing(j, c)}
                  /\ driver' = "dead"
                  /\ UNCHANGED <<next_run, tasks>>
          ELSE /\ fired' = fired \cup {Firing(j, c) : j \in due}
               /\ next_run' = [j \in Jobs |->
                        IF j \in due THEN NextRunAfter(j, c) ELSE next_run[j]]
               /\ tasks' = tasks + Cardinality(due)
               /\ UNCHANGED driver
    /\ UNCHANGED <<procVars, runs>>

\* a created task starts while the coroutine sleeps: send_daily_notifications
\* reads the subscriber list and goes through it
TaskRun ==
    /\ tasks > 0
    /\ tasks' = tasks - 1
    /\ runs' = [count |-> runs.count + 1, last |-> get_subscribed_users(users)]
    /\ UNCHANGED <<procVars, driver, clock, next_run, fired>>

\* what the process and its scheduler leave alone
storeFrame == <<storeVars, last_op, bcastVars, adminlog, genVars, restVars>>

NextProcess ==
    \/ \E u \in Users : subscribe_command(u) /\ UNCHANGED extVars
    \/ ClockAdvance /\ UNCHANGED storeFrame
    \/ RailwayCheckToken /\ UNCHANGED storeFrame
    \/ RailwayClearWebhook /\ UNCHANGED storeFrame
    \/ ClearWebhookPost /\ UNCHANGED storeFrame
    \/ ClearWebhookSleep /\ UNCHANGED storeFrame
    \/ RailwayStartBot /\ UNCHANGED storeFrame
    \/ MainCheckCredentials /\ UNCHANGED storeFrame
    \/ MainSchedule /\ UNCHANGED storeFrame
    \/ StartSchedulerThread /\ UNCHANGED storeFrame
    \/ RunPolling /\ UNCHANGED storeFrame
    \/ StartCoroutineDriver /\ UNCHANGED storeFrame
    \/ SchedulerTick /\ UNCHANGED storeFrame
    \/ TaskRun /\ UNCHANGED storeFrame

SpecProcess == InitProcess /\ [][NextProcess]_vars

\* every action of the process and its scheduler is taken when it stays
\* possible: the interpreter and the operating system's threads make
\* progress
SpecProcessLive ==
    /\ SpecProcess
    /\ WF_vars(ClockAdvance /\ UNCHANGED storeFrame)
    /\ WF_vars(RailwayCheckToken /\ UNCHANGED storeFrame)
    /\ WF_vars(RailwayClearWebhook /\ UNCHANGED storeFrame)
    /\ WF_vars(ClearWebhookPost /\ UNCHANGED storeFrame)
    /\ WF_vars(ClearWebhookSleep /\ UNCHANGED storeFrame)
    /\ WF_vars(RailwayStartBot /\ UNCHANGED storeFrame)
    /\ WF_vars(MainCheckCredentials /\ UNCHANGED storeFrame)
    /\ WF_vars(MainSchedule /\ UNCHANGED storeFrame)
    /\ WF_vars(StartSchedulerThread /\ UNCHANGED storeFrame)
    /\ WF_vars(RunPolling /\ UNCHANGED storeFrame)
    /\ WF_vars(StartCoroutineDriver /\ UNCHANGED storeFrame)
    /\ WF_vars(SchedulerTick /\ UNCHANGED storeFrame)
    /\ WF_vars(TaskRun /\ UNCHANGED storeFrame)

\* ------------------------------------------------- scheduler properties
DayOf(c) == c \div SlotsPerDay

\* the job functions called by a step
FiredNow == fired' \ fired

EightOClockJobs == {j \in WeekdayJobs : j.at = "08:00:00"}

SchedulerThreadKeepsTicking ==
    (entry # "run_scheduler" /\ proc \in {"sb_polling", "polling"}) =>
        driver = "thread"

\* C17: in the process started by main, once a scheduled job has fired
\* while a user is subscribed, send_daily_notifications is eventually
\* executed (or the process has ended).
FiredJobRunsBroadcast ==
    (entry # "run_scheduler" /\ fired # {} /\ SubscribedIds(users) # {})
        ~> (runs.count > 0 \/ proc = "exited")

\* C20: with a mandatory credential absent, the process started through
\* stock_bot.main or railway_start.main neither starts the scheduler
\* thread nor polls, and once it has ended its exit status is not zero.
MissingCredentialExitsNonZero ==
    (entry # "run_scheduler" /\ (~env.token \/ ~env.key)) =>
        /\ driver = "none"
        /\ proc \notin {"sb_schedule", "sb_thread", "sb_polling", "polling"}
        /\ proc = "exited" => exit_status \notin {NotExited, 0}

\* C18: in a broadcast every message send attempt other than the first
\* comes after a sleep that followed the previous attempt, whether that
\* attempt succeeded or failed, to the same or to the previous recipient.
PacingBetweenSends == hist.unpaced = {}

\* ----------------------------------------- the fetch functions by themselves
\* topics and languages a caller can pass: the configured keys and values
\* outside them
AnyTopics == TopicKeys \cup {"unknown_topic", ""}
AnyLanguages == Languages \cup {"de"}

NoRequest == [topic |-> "none", language |-> "none"]

\* topic_descriptions[topic].get(language, topic_descriptions[topic]['en'])
\* (asset_descriptions likewise): a topic outside the dictionary's keys
\* raises KeyError, a language outside the entry's keys gives 'en'
category_description(topic, language) ==
    IF topic \notin TopicKeys
    THEN Raised("KeyError")
    ELSE Returned([topic |-> topic,
                   language |-> IF language \in Languages THEN language ELSE "en"])

\* one call of fetch_ai_news or fetch_ai_assets: the description its
\* generation request is built from (NoRequest when none is issued) and the
\* number of items it returns
fetch_call(c) ==
    LET d == category_description(c.topic, c.language)
        r == IF c.fn = "fetch_ai_news"
             THEN fetch_ai_news(c.topic, c.language, c.svc, c.n)
             ELSE fetch_ai_assets(c.topic, c.language, c.svc, c.n)
    IN [returned |-> TRUE,
        request |-> IF d.raised THEN NoRequest ELSE d.value,
        raised |-> r.raised,
        items |-> IF r.raised THEN 0 ELSE r.value]

InitGenerate ==
    /\ InitStore
    /\ InitNoProcess
    /\ gen_in \in [fn : {"fetch_ai_news", "fetch_ai_assets"}, topic : AnyTopics,
                    language : AnyLanguages, svc : SvcOutcomes, n : 0 .. MaxItems]
    /\ gen_out = NotReturned
    /\ InitNoInput

\* the call runs to its return
FetchCall ==
    /\ gen_out = NotReturned
    /\ gen_out' = fetch_call(gen_in)
    /\ UNCHANGED <<storeVars, last_op, bcastVars, adminlog, procVars, schedVars,
                   gen_in, restVars>>

NextGenerate == FetchCall

SpecGenerate == InitGenerate /\ [][NextGenerate]_vars

\* C19: a fetch call for a topic that is not a configured key issues the
\* generation request that the same call for topic "all" issues (built
\* from the same category description) and returns as that call does.
UnknownTopicFallsBackToAll ==
    (gen_out # NotReturned /\ gen_in.topic \notin TopicKeys) =>
        gen_out = fetch_call([gen_in EXCEPT !.topic = "all"])

\* ------------------------------------------------------ Store properties
\* the columns of table users
RowFields ==
    {"username", "first_name", "last_name", "subscribed", "language",
     "topic_preferences", "last_active"}

\* a step that changes at most the columns cols of the existing row u, and
\* nothing else in the table
OnlyColumns(u, cols) ==
    /\ \A v \in Users \ {u} : users'[v] = users[v]
    /\ IF users[u] = NoRow
       THEN users'[u] = NoRow
       ELSE /\ users'[u] # NoRow
            /\ \A f \in RowFields \ cols : users'[u][f] = users[u][f]

\* C21: the Store's statements, interleaved in any order by the command
\* handlers and by a broadcast's unsubscribe, each change only their own
\* column of their own row, and a row's subscribed flag is the value of
\* the last statement that wrote it.
WritesAreRowLocal ==
    /\ [][\A u \in Users :
            /\ DbSubscribeUser(u) => OnlyColumns(u, {"subscribed"})
            /\ DbUnsubscribeUser(u) => OnlyColumns(u, {"subscribed"})
            /\ (\E l \in Languages : DbSetUserLanguage(u, l)) =>
                    OnlyColumns(u, {"language"})
            /\ (\E t \in TopicChoices : DbSetUserTopics(u, t)) =>
                    OnlyColumns(u, {"topic_preferences"})]_vars
    /\ [][\A u \in Users :
            (users[u] # NoRow /\ users'[u] # NoRow
                /\ users'[u].subscribed # users[u].subscribed) =>
            /\ last_op'.user = u
            /\ last_op'.op = (IF users'[u].subscribed THEN "subscribe_user"
                               ELSE "unsubscribe_user")]_vars
    /\ []((last_op.user \in Users /\ users[last_op.user] # NoRow) =>
            /\ last_op.op = "subscribe_user" => users[last_op.user].subscribed
            /\ last_op.op = "unsubscribe_user" => ~users[last_op.user].subscribed)

\* C21 witness: an unsubscribe has just been written to a row after other
\* statements changed its language and topic, while the other row stays
\* subscribed
UnsubscribeAmongOtherWrites ==
    /\ last_op.op = "unsubscribe_user"
    /\ last_op.user \in Users
    /\ \E v \in Users \ {last_op.user} : is_subscribed(users, v)
    /\ LET r == users[last_op.user]
       IN r # NoRow /\ ~r.subscribed /\ r.language = "en"
            /\ r.topic_preferences = "finance"

\* C22 as claimed, for the scheduled broadcast: a subscriber during whose
\* processing a Store access raised is skipped, that is counted as failed,
\* and the broadcast goes on to every subscriber after it.
StoreErrorSkipsSubscriber ==
    (trigger = "test" /\ pc = "done") =>
        \A k \in hist.storeFailed :
            /\ k \in hist.fail
            /\ After(k) \subseteq hist.succ \cup hist.fail

\* ------------------------------------------- the sections of one digest
\* the section a sent message belongs to
SectionOf(m) ==
    IF m.kind \in {"news", "news_unavailable"} THEN "news"
    ELSE IF m.kind \in {"predictions", "predictions_unavailable"} THEN "predictions"
    ELSE m.kind

\* the messages the current recipient has received, by section, in order
SentKinds ==
    LET s == SelectSeq(msgs, LAMBDA x : x # Sleep)
    IN [i \in 1..Len(s) |-> SectionOf(s[i])]

\* news, assets when at least one asset record was parsed, predictions
FullOrder ==
    <<"news">> \o (IF asset_items > 0 THEN <<"assets">> ELSE <<>>)
               \o <<"predictions">>

IsPrefix(a, b) == Len(a) <= Len(b) /\ a = SubSeq(b, 1, Len(a))

\* C23: for one recipient send_ai_digest_parts sends the sections in the
\* order news, assets, predictions, the assets section only when at least
\* one asset record was parsed; a call in which no send raises sends news
\* and predictions whatever was parsed; once a send has raised no later
\* section is sent, and the only message that may follow is the single
\* error message.  Stated for calls whose Store reads succeed.
SectionsInOrder ==
    (trigger = "test" /\ pc \in {"news", "assets", "pred", "except", "l_ok", "l_except"}
        /\ Cur \notin hist.storeFailed) =>
        LET k == SentKinds
            secs == SelectSeq(k, LAMBDA x : x # "error")
        IN /\ IsPrefix(secs, FullOrder)
           /\ pc = "news" => k = <<>>
           /\ pc = "assets" => k = <<"news">> /\ asset_items > 0
           /\ pc = "pred" => Append(k, "predictions") = FullOrder
           /\ (pc = "l_ok" /\ caught = "none") => k = FullOrder
           /\ caught = "none" => k = secs
           /\ caught # "none" =>
                /\ secs # FullOrder
                /\ k \in {secs, Append(secs, "error")}
                /\ Cur \in hist.sendRaised
                /\ pc \in {"except", "l_ok", "l_except"}

\* C23 witness: assets were parsed, the news section was sent, the send of
\* the assets section raised, and the call returned after the error
\* message without sending the predictions
AssetsSendRaised ==
    /\ trigger = "test"
    /\ pc = "l_ok"
    /\ asset_items > 0
    /\ caught = "transient"
    /\ SentKinds = <<"news", "error">>

\* the users table is the same after the step
TableKept == users' = users /\ admin_users' = admin_users

\* C27: add_user on an id without a row creates exactly one row, that id's,
\* with subscribed = TRUE, language 'ru' and topic_preferences 'all', so the
\* id is in the next read of the subscriber list; subscribe_user,
\* unsubscribe_user, set_user_language and set_user_topics on an id without
\* a row create no row and change nothing; and no statement deletes a row:
\* the number of rows never decreases.
RegistrationCreatesDefaultRow ==
    /\ [][\A u \in Users, p \in Profiles :
            (DbAddUser(u, p) /\ users[u] = NoRow) =>
                /\ users'[u] # NoRow
                /\ users'[u].subscribed = TRUE
                /\ users'[u].language = "ru"
                /\ users'[u].topic_preferences = "all"
                /\ \A v \in Users \ {u} : users'[v] = users[v]
                /\ get_user_count(users') = get_user_count(users) + 1
                /\ u \in Range(get_subscribed_users(users'))]_vars
    /\ [][\A u \in Users :
            (users[u] = NoRow /\
                \/ DbSubscribeUser(u)
                \/ DbUnsubscribeUser(u)
                \/ \E l \in Languages : DbSetUserLanguage(u, l)
                \/ \E t \in TopicChoices : DbSetUserTopics(u, t)) => TableKept]_vars
    /\ [][/\ \A u \in Users : users[u] # NoRow => users'[u] # NoRow
          /\ get_user_count(users') >= get_user_count(users)]_vars

\* C27 witness: subscribe_user has just run on an id that has no row, and
\* still has none, while another id is registered with the default row and
\* is the whole subscriber list
MutationOnMissingRow ==
    /\ last_op = Op("subscribe_user", 2)
    /\ users[2] = NoRow
    /\ users[1] # NoRow
    /\ users[1].subscribed /\ users[1].language = "ru"
    /\ users[1].topic_preferences = "all"
    /\ get_subscribed_users(users) = <<1>>

\* the ids at the positions of the list before position k
Before(k) == {subscribers[j] : j \in 1..(k - 1)}

\* the ids whose delivery attempt has ended, counted either way
Counted == hist.succ \cup hist.fail

WebhookClearTerminates ==
    /\ [](wh.posts <= MaxAttempts /\ wh.attempt < MaxAttempts)
    /\ [](proc = "wh_post" => wh.posts = wh.attempt /\ wh.sleeps = wh.posts
                                /\ wh.result = "none" /\ wh.status # "200")
    /\ [](proc = "wh_sleep" => wh.posts < MaxAttempts /\ wh.sleeps = wh.posts - 1
                                 /\ wh.result = "none" /\ wh.status # "200")
    /\ [](proc = "rw_cleared" =>
            /\ wh.last = "post"
            /\ wh.sleeps = wh.posts - 1
            /\ wh.result = "True" <=> wh.status = "200"
            /\ wh.result = "False" <=> (wh.status # "200" /\ wh.posts = MaxAttempts)
            /\ wh.result \in {"True", "False"})
    /\ [][proc = "rw_cleared" => proc' \in {"rw_cleared", "sb_main"}]_vars
    /\ (proc = "rw_webhook") ~> (proc = "rw_cleared")
    /\ (proc = "rw_cleared") ~> (proc = "sb_main")

\* C30 witness: the function has returned False after three requests and
\* two sleeps
WebhookNotCleared ==
    /\ proc = "rw_cleared"
    /\ wh.result = "False"
    /\ wh.posts = 3
    /\ wh.sleeps = 2

\* ------------------------------------------------- the callback queries
\* A button payload (query.data) is the sequence of its pieces: the three
\* prefixes handle_callback knows and the words that follow them.
Prefixes == {"cmd_", "lang_", "topic_"}

Words ==
    {"news", "subscribe", "settings", "morning_brief", "main_menu", "en",
     "finance", "crypto"}

MaxPrefixes == 2

\* the payloads a client can send: up to MaxPrefixes prefixes, then a word
Payloads ==
    {p \o <<w>> : p \in UNION {[1..n -> Prefixes] : n \in 0..MaxPrefixes},
                   w \in Words}

\* str.startswith
startswith(d, p) == Len(d) > 0 /\ d[1] = p

\* str.replace(p, ""): every occurrence of p is removed
replace(d, p) == SelectSeq(d, LAMBDA t : t # p)

\* the callback_data values _handle_contextual_callback compares with
ContextualNames ==
    {"morning_brief", "premarket", "market_open", "today_events", "live_feed",
     "active_alerts", "top_movers", "breaking_news", "watchlist", "live_prices",
     "search", "analysis", "day_summary", "after_hours", "tomorrow_prep",
     "evening_brief", "daily_performance", "forecasts", "weekend_news",
     "weekly_summary", "week_forecast", "trends_overview", "planning",
     "education", "night_mode", "asian_markets", "portfolio", "main_menu"}

\* the commands _handle_command_callback routes itself
CommandNames == {"news", "topics", "subscribe", "status", "language", "help"}

Handled(tbl, handler, reply) == [tbl |-> tbl, handler |-> handler, reply |-> reply]

\* _handle_contextual_callback: one branch per name, cmd_settings, or the
\* "feature under development" answer; none of them writes to the Store
handle_contextual_callback(tbl, u, d) ==
    IF Len(d) = 1 /\ d[1] \in ContextualNames
    THEN Handled(tbl, "_handle_contextual_callback", d[1])
    ELSE IF d = <<"cmd_", "settings">>
    THEN Handled(tbl, "_handle_contextual_callback", "settings")
    ELSE Handled(tbl, "_handle_contextual_callback", "under_development")

\* _handle_command_callback: command = query.data.replace("cmd_", "")
handle_command_callback(tbl, u, d) ==
    LET command == replace(d, "cmd_") IN
    IF command = <<"subscribe">>
    THEN IF is_subscribed(tbl, u)
         THEN Handled(unsubscribe_user(tbl, u), "_handle_command_callback",
                      "notifications_disabled")
         ELSE Handled(subscribe_user(tbl, u), "_handle_command_callback",
                      "notifications_enabled")
    ELSE IF Len(command) = 1 /\ command[1] \in CommandNames
    THEN Handled(tbl, "_handle_command_callback", command[1])
    ELSE handle_contextual_callback(tbl, u, d)

\* _handle_language_selection: query.data == "lang_ru" / "lang_en"
handle_language_selection(tbl, u, d) ==
    IF d = <<"lang_", "ru">>
    THEN Handled(set_user_language(tbl, u, "ru"), "_handle_language_selection",
                 "language_changed")
    ELSE IF d = <<"lang_", "en">>
    THEN Handled(set_user_language(tbl, u, "en"), "_handle_language_selection",
                 "language_changed")
    ELSE Handled(tbl, "_handle_language_selection", "invalid_language")

handle_topic_selection_any(tbl, u, d) ==
    LET topic_key == replace(d, "topic_") IN
    IF Len(topic_key) = 1
    THEN Handled(set_user_topics(tbl, u, topic_key[1]), "_handle_topic_selection",
                 "topics_updated")
    ELSE Handled(tbl, "_handle_topic_selection", "none")

\* _handle_topic_selection: topic_key = query.data.replace('topic_', '');
\* if topic_key in self.available_topics: set_user_topics; otherwise nothing
handle_topic_selection(tbl, u, d) ==
    LET topic_key == replace(d, "topic_") IN
    IF Len(topic_key) = 1 /\ topic_key[1] \in TopicKeys
    THEN Handled(set_user_topics(tbl, u, topic_key[1]), "_handle_topic_selection",
                 "topics_updated")
    ELSE Handled(tbl, "_handle_topic_selection", "none")

dispatch_contextual(tbl, u, d) ==
    IF startswith(d, "cmd_") THEN handle_command_callback(tbl, u, d)
    ELSE IF startswith(d, "lang_") THEN handle_language_selection(tbl, u, d)
    ELSE IF startswith(d, "topic_") THEN handle_topic_selection(tbl, u, d)
    ELSE handle_contextual_callback(tbl, u, d)

\* handle_callback's if / elif chain on the payload's prefix
dispatch(tbl, u, d) ==
    IF startswith(d, "cmd_") THEN handle_command_callback(tbl, u, d)
    ELSE IF startswith(d, "lang_") THEN handle_language_selection(tbl, u, d)
    ELSE IF startswith(d, "topic_") THEN handle_topic_selection(tbl, u, d)
    ELSE Handled(tbl, "handle_callback", "invalid_selection")

\* handle_callback: add_user, then the dispatch
handle_callback(u, d) ==
    LET r == dispatch(add_user(users, u, HandlerProfile, now), u, d) IN
    /\ users' = r.tbl
    /\ cb' = [user |-> u, data |-> d, handler |-> r.handler, reply |-> r.reply]
    /\ UNCHANGED <<admin_users, now, last_op, bcastVars>>

\* what the commands and callbacks leave alone
cbFrame == <<adminlog, procVars, schedVars, genVars, parseVars>>

\* the bot under button presses and the subscription commands; cb holds the
\* callback query of the last update, if that update was one
NextCallback ==
    \/ \E u \in Users, d \in Payloads : handle_callback(u, d) /\ UNCHANGED cbFrame
    \/ \E u \in Users : subscribe_command(u) /\ cb' = NoCallback /\ UNCHANGED cbFrame
    \/ \E u \in Users : unsubscribe_command(u) /\ cb' = NoCallback /\ UNCHANGED cbFrame

SpecCallback == Init /\ [][NextCallback]_vars

\* the stored preferences of a row
PrefsOf(row) ==
    IF row = NoRow THEN <<>>
    ELSE <<row.subscribed, row.language, row.topic_preferences>>

\* the table after the add_user call every handler starts with
Touched(u) == add_user(users, u, HandlerProfile, now)

HasPrefix(d) == \E p \in Prefixes : startswith(d, p)

\* C29: handle_callback dispatches on the payload's prefix: cmd_ reaches
\* _handle_command_callback, and from there _handle_contextual_callback
\* exactly when what is left of the payload is no command; lang_ reaches
\* _handle_language_selection, topic_ reaches _handle_topic_selection; a
\* payload with none of the prefixes is answered "Invalid selection" by
\* handle_callback itself, reaches no contextual handler, and leaves the
\* Store as add_user left it.
DispatchByPrefix ==
    /\ [](cb # NoCallback =>
            LET d == cb.data IN
            /\ startswith(d, "cmd_") =>
                    /\ cb.handler \in {"_handle_command_callback",
                                        "_handle_contextual_callback"}
                    /\ cb.handler = "_handle_contextual_callback" <=>
                            replace(d, "cmd_") \notin {<<c>> : c \in CommandNames}
            /\ startswith(d, "lang_") => cb.handler = "_handle_language_selection"
            /\ startswith(d, "topic_") => cb.handler = "_handle_topic_selection"
            /\ ~HasPrefix(d) =>
                    /\ cb.handler = "handle_callback"
                    /\ cb.reply = "invalid_selection")
    /\ [][(cb' # NoCallback /\ ~HasPrefix(cb'.data)) =>
            /\ users' = Touched(cb'.user)
            /\ admin_users' = admin_users
            /\ \A v \in Users : users[v] # NoRow =>
                    PrefsOf(users'[v]) = PrefsOf(users[v])]_vars

\* C29 witness: a user who is unsubscribed, reads English and follows
\* finance pressed the morning_brief button and was answered "Invalid
\* selection"
ContextualButtonRejected ==
    /\ cb # NoCallback
    /\ cb.data = <<"morning_brief">>
    /\ cb.handler = "handle_callback"
    /\ cb.reply = "invalid_selection"
    /\ users[cb.user] # NoRow
    /\ PrefsOf(users[cb.user]) = <<FALSE, "en", "finance">>

\* every row holds a configured topic key and a supported language
StoredPreferencesValid ==
    \A u \in Users : users[u] # NoRow =>
        /\ users[u].topic_preferences \in TopicKeys
        /\ users[u].language \in Languages

\* a lang_ or topic_ payload whose value, the part after the prefix, is
\* none of the values the handler accepts
OtherValue(d) ==
    \/ startswith(d, "lang_") /\ Tail(d) \notin {<<l>> : l \in Languages}
    \/ startswith(d, "topic_") /\ Tail(d) \notin {<<k>> : k \in TopicKeys}

\* C26 as claimed: every row's topic_preferences is one of the five topic
\* keys and its language is 'en' or 'ru', and a topic_ or lang_ callback
\* carrying any other value leaves the stored topic and language unchanged.
OtherValueChangesNothing ==
    /\ []StoredPreferencesValid
    /\ [][(cb' # NoCallback /\ OtherValue(cb'.data)) =>
            PrefsOf(users'[cb'.user]) = PrefsOf(Touched(cb'.user)[cb'.user])]_vars

\* C26 as amended: every row's topic_preferences is one of the five topic
\* keys and its language is 'en' or 'ru'; a lang_ callback other than
\* lang_ru and lang_en changes nothing stored; a topic_ callback changes
\* nothing stored unless its payload with every "topic_" removed is a topic
\* key, and then it stores that key and leaves the language alone.
PreferencesStayValid ==
    /\ []StoredPreferencesValid
    /\ [][(cb' # NoCallback /\ startswith(cb'.data, "lang_")
                /\ Tail(cb'.data) \notin {<<l>> : l \in Languages}) =>
            users' = Touched(cb'.user)]_vars
    /\ [][(cb' # NoCallback /\ startswith(cb'.data, "topic_")) =>
            LET key == replace(cb'.data, "topic_") IN
            IF key \in {<<k>> : k \in TopicKeys}
            THEN users' = set_user_topics(Touched(cb'.user), cb'.user, key[1])
            ELSE users' = Touched(cb'.user)]_vars

\* C26 witness: a user who reads English and follows finance pressed a
\* button carrying topic_crypto, and the row still holds finance
UnknownTopicRejected ==
    /\ cb # NoCallback
    /\ cb.data = <<"topic_", "crypto">>
    /\ users[cb.user] # NoRow
    /\ users[cb.user].topic_preferences = "finance"
    /\ users[cb.user].language = "en"

\* --------------------------------------------- the parse functions
\* The service's answer is a sequence of lines.  A line is a field label
\* and the text after it; a blank line has neither.  The text after a label
\* is empty, a text without digits, or a text with a number in it.
MaxParagraphs == 8
MaxIrregular == 2

\* if len(news_items) >= 7 / if len(asset_items) >= 7
NewsLimit == 7
AssetsLimit == 7
\* price = 100.0  # Default fallback
SentinelPrice == 100

Empty == [kind |-> "empty", n |-> 0]
Text == [kind |-> "text", n |-> 0]
Num(n) == [kind |-> "number", n |-> n]
Label(key) == [kind |-> key, n |-> 0]

Line(key, val) == [key |-> key, val |-> val]
Blank == Line("", Empty)

\* the paragraphs a news answer is made of
NewsShapes ==
    [full |-> <<Line("Title", Text), Line("Summary", Text), Line("Source", Text)>>,
     no_title |-> <<Line("Summary", Text), Line("Source", Text)>>,
     no_summary |-> <<Line("Title", Text), Line("Source", Text)>>,
     empty_title |-> <<Line("Title", Empty), Line("Summary", Text)>>,
     empty_summary |-> <<Line("Title", Text), Line("Summary", Empty)>>,
     blank_inside |-> <<Line("Title", Text), Blank, Line("Summary", Text)>>]

\* the paragraphs an assets answer is made of
AssetShapes ==
    [full |-> <<Line("Symbol", Text), Line("Price", Num(250)), Line("Change", Num(2))>>,
     falling |-> <<Line("Symbol", Text), Line("Price", Num(250)), Line("Change", Num(0 - 3))>>,
     flat |-> <<Line("Symbol", Text), Line("Price", Num(250)), Line("Change", Num(0))>>,
     price_text |-> <<Line("Symbol", Text), Line("Price", Text), Line("Change", Num(0 - 3))>>,
     change_text |-> <<Line("Symbol", Text), Line("Price", Num(250)), Line("Change", Text)>>,
     no_symbol |-> <<Line("Price", Num(250)), Line("Change", Num(2))>>,
     empty_price |-> <<Line("Symbol", Text), Line("Price", Empty), Line("Change", Num(2))>>,
     empty_price_last |-> <<Line("Symbol", Text), Line("Change", Num(2)), Line("Price", Empty)>>]

ParseFns == {"_parse_ai_news", "_parse_ai_assets"}

ShapesOf(fn) == IF fn = "_parse_ai_news" THEN NewsShapes ELSE AssetShapes

\* the paragraphs of an answer, one blank line between two of them
RECURSIVE Join(_)
Join(blocks) ==
    IF blocks = <<>> THEN <<>>
    ELSE IF Len(blocks) = 1 THEN blocks[1]
    ELSE blocks[1] \o <<Blank>> \o Join(Tail(blocks))

\* answers of up to MaxParagraphs paragraphs, all of the full shape but
\* up to MaxIrregular of them
Contents(fn) ==
    LET sh == ShapesOf(fn)
        irregular == DOMAIN sh \ {"full"}
    IN UNION {UNION {{Join([i \in 1..n |-> IF i \in P THEN sh[g[i]] ELSE sh["full"]]) :
                        g \in [P -> irregular]} :
                     P \in {Q \in SUBSET (1..n) : Cardinality(Q) <= MaxIrregular}} :
              n \in 0..MaxParagraphs}

\* content.strip(): no blank line at either end
RECURSIVE Strip(_)
Strip(c) ==
    IF c = <<>> THEN c
    ELSE IF c[1] = Blank THEN Strip(Tail(c))
    ELSE IF c[Len(c)] = Blank THEN Strip(SubSeq(c, 1, Len(c) - 1))
    ELSE c

RECURSIVE Sections(_, _, _, _)
Sections(c, i, cur, acc) ==
    IF i > Len(c) THEN Append(acc, cur)
    ELSE IF c[i] = Blank
    THEN IF cur = <<>> THEN Sections(c, i + 1, cur, acc)
         ELSE Sections(c, i + 1, <<>>, Append(acc, cur))
    ELSE Sections(c, i + 1, Append(cur, c[i]), acc)

\* re.split(r'\n\s*\n', content.strip()): the runs of lines between blank
\* lines; the empty answer gives one empty section
Split(content) == Sections(Strip(content), 1, <<>>, <<>>)

NoMatch == [matched |-> FALSE, text |-> <<>>]

\* re.search(r'<key>:\s*(.+)', section): the first label of that key after
\* which a character other than white space follows; \s* runs over the end
\* of the line, so after an empty field the group is the whole next line
Search(section, key) ==
    LET at == {i \in 1..Len(section) :
                 /\ section[i].key = key
                 /\ section[i].val # Empty \/ i < Len(section)}
    IN IF at = {} THEN NoMatch
       ELSE LET i == CHOOSE x \in at : \A y \in at : x <= y IN
            IF section[i].val # Empty
            THEN [matched |-> TRUE, text |-> <<section[i].val>>]
            ELSE [matched |-> TRUE,
                  text |-> <<Label(section[i + 1].key), section[i + 1].val>>]

\* re.search(r'Change:\s*([+-]?\d+\.?\d*)%?', section): the first
\* Change label that a number follows
SearchNumber(section, key) ==
    LET at == {i \in 1..Len(section) :
                 section[i].key = key /\ section[i].val.kind = "number"}
    IN IF at = {} THEN NoMatch
       ELSE LET i == CHOOSE x \in at : \A y \in at : x <= y IN
            [matched |-> TRUE, text |-> <<section[i].val>>]

\* re.search(r'[\d,]+\.?\d*', price_str.replace(',', '')): the first
\* run of digits, which has no sign
Digits(text) == SelectSeq(text, LAMBDA t : t.kind = "number")

Abs(n) == IF n < 0 THEN 0 - n ELSE n

NewsItem(i, title, summary) ==
    [section |-> i, title |-> title, summary |-> summary]

AssetItem(i, symbol, price, change, direction) ==
    [section |-> i, symbol |-> symbol, price |-> price, change |-> change,
     change_direction |-> direction]

\* the for loop of _parse_ai_news from section i on
RECURSIVE NewsFrom(_, _, _)
NewsFrom(sections, i, news_items0) ==
    IF i > Len(sections) THEN news_items0
    ELSE IF sections[i] = <<>> THEN NewsFrom(sections, i + 1, news_items0)
    ELSE LET title_match == Search(sections[i], "Title")
             summary_match == Search(sections[i], "Summary")
         IN IF title_match.matched /\ summary_match.matched
            THEN LET items == Append(news_items0,
                                     NewsItem(i, title_match.text, summary_match.text))
                 IN IF Len(items) >= NewsLimit THEN items
                    ELSE NewsFrom(sections, i + 1, items)
            ELSE NewsFrom(sections, i + 1, news_items0)

parse_ai_news(content) == NewsFrom(Split(content), 1, <<>>)

\* the for loop of _parse_ai_assets from section i on
RECURSIVE AssetsFrom(_, _, _)
AssetsFrom(sections, i, asset_items0) ==
    IF i > Len(sections) THEN asset_items0
    ELSE IF sections[i] = <<>> THEN AssetsFrom(sections, i + 1, asset_items0)
    ELSE LET symbol_match == Search(sections[i], "Symbol")
             price_match == Search(sections[i], "Price")
             change_match == SearchNumber(sections[i], "Change")
         IN IF symbol_match.matched /\ price_match.matched /\ change_match.matched
            THEN LET price_num_match == Digits(price_match.text)
                     price == IF price_num_match # <<>>
                              THEN Abs(price_num_match[1].n)
                              ELSE SentinelPrice
                     change == change_match.text[1].n
                     direction == IF change >= 0 THEN "up" ELSE "down"
                     items == Append(asset_items0,
                                     AssetItem(i, symbol_match.text, price, change,
                                               direction))
                 IN IF Len(items) >= AssetsLimit THEN items
                    ELSE AssetsFrom(sections, i + 1, items)
            ELSE AssetsFrom(sections, i + 1, asset_items0)

parse_ai_assets(content) == AssetsFrom(Split(content), 1, <<>>)

\* a call of one of the two functions on one answer
InitParse ==
    /\ InitStore
    /\ InitNoProcess
    /\ gen_in = NoCall
    /\ gen_out = NotReturned
    /\ cb = NoCallback
    /\ parse_in \in UNION {{[fn |-> f, content |-> c] : c \in Contents(f)} : f \in ParseFns}
    /\ parse_out = NotParsed

\* the call runs to its return
ParseCall ==
    /\ parse_out = NotParsed
    /\ parse_out' = [returned |-> TRUE,
                     value |-> IF parse_in.fn = "_parse_ai_news"
                               THEN parse_ai_news(parse_in.content)
                               ELSE parse_ai_assets(parse_in.content)]
    /\ UNCHANGED <<storeVars, last_op, bcastVars, adminlog, procVars, schedVars,
                   genVars, cb, parse_in>>

NextParse == ParseCall

SpecParse == InitParse /\ [][NextParse]_vars

\* ------------------------------------------------ parser properties
\* the first n elements of a sequence
Take(s, n) == SubSeq(s, 1, IF Len(s) < n THEN Len(s) ELSE n)

\* the field of that key in a paragraph: the text after its first label
FieldOf(section, key) ==
    LET at == {i \in 1..Len(section) : section[i].key = key}
    IN IF at = {} THEN Empty
       ELSE section[CHOOSE x \in at : \A y \in at : x <= y].val

\* a paragraph contains a field when the label is there with a text
HasField(section, key) == FieldOf(section, key) # Empty

\* the positions of the paragraphs of the parsed answer that satisfy Q, in
\* order
Positions(Q(_)) ==
    LET sections == Split(parse_in.content)
    IN SelectSeq([i \in 1..Len(sections) |-> i], LAMBDA i : Q(sections[i]))

KeptPositions == [k \in 1..Len(parse_out.value) |-> parse_out.value[k].section]

NewsParagraph(section) == HasField(section, "Title") /\ HasField(section, "Summary")

AssetParagraph(section) ==
    /\ HasField(section, "Symbol")
    /\ HasField(section, "Price")
    /\ FieldOf(section, "Change").kind = "number"

\* C24 as claimed: each parser returns at most 7 records, in input order:
\* _parse_ai_news keeps exactly the first 7 paragraphs that contain both a
\* Title and a Summary field, _parse_ai_assets exactly the first 7 that
\* contain a Symbol, a Price and a numeric Change field; every other
\* paragraph, and every paragraph after the seventh kept one, is dropped.
ParsersKeepFirstSeven ==
    parse_out # NotParsed =>
        /\ Len(parse_out.value) <= 7
        /\ parse_in.fn = "_parse_ai_news" =>
                KeptPositions = Take(Positions(NewsParagraph), 7)
        /\ parse_in.fn = "_parse_ai_assets" =>
                KeptPositions = Take(Positions(AssetParagraph), 7)

\* a paragraph with a Symbol, a numeric Change and a Price field that holds
\* no number
PriceWithoutNumber(section) ==
    /\ HasField(section, "Symbol")
    /\ FieldOf(section, "Change").kind = "number"
    /\ \E i \in 1..Len(section) : section[i].key = "Price"
    /\ FieldOf(section, "Price").kind # "number"

\* C25 as claimed: in _parse_ai_assets a paragraph whose Price field holds
\* no number is kept, with the price 100.0; the paragraphs around it are
\* kept as they are; and every record's change_direction is 'up' exactly
\* when its change is >= 0.  Stated for answers with fewer than 7 records.
PriceFallsBackToSentinel ==
    (parse_out # NotParsed /\ parse_in.fn = "_parse_ai_assets"
        /\ Len(parse_out.value) < AssetsLimit) =>
        LET sections == Split(parse_in.content) IN
        /\ \A i \in 1..Len(sections) :
                PriceWithoutNumber(sections[i]) =>
                    \E k \in 1..Len(parse_out.value) :
                        /\ parse_out.value[k].section = i
                        /\ parse_out.value[k].price = SentinelPrice
        /\ \A i \in 1..Len(sections) :
                sections[i] = AssetShapes["full"] =>
                    \E k \in 1..Len(parse_out.value) :
                        /\ parse_out.value[k].section = i
                        /\ parse_out.value[k].price = 250
        /\ \A k \in 1..Len(parse_out.value) :
                parse_out.value[k].change_direction = "up" <=>
                    parse_out.value[k].change >= 0

====
